---- MODULE Spec2Model ----
(***************************************************************************)
(* World-threat lifecycle engine of the single-active-threat server        *)
(* (src/server.js lines 313-688) with its configuration module             *)
(* (src/unnamed/part_001).                                                 *)
(*                                                                         *)
(* Representation.                                                         *)
(*   - A JavaScript value held in a numeric field is a record              *)
(*     [k, n]: k = "num" is a finite number n, k = "nan" is NaN,           *)
(*     k = "undef" is undefined/null/absent, k = "str" is a non-empty      *)
(*     string that does not parse as a number.                             *)
(*   - Numbers are exact fixed point instead of IEEE doubles:              *)
(*       times            milliseconds                                     *)
(*       stats            units                                            *)
(*       health, sanity   1/HpUnit of a point                              *)
(*       power            tenths                                           *)
(*       speed            tenths (getDifficultySpeed * 10)                 *)
(*       progress         1/ProgressUnit of a percent                      *)
(*   - Date.now() is the variable now; every handler runs at one instant.  *)
(***************************************************************************)
EXTENDS Integers, Sequences, FiniteSets, TLC

VARIABLES
    now,              \* the wall clock read by Date.now() / new Date()
    activeThreat,     \* server.js:348
    finishedThreats,  \* server.js:349
    lastTickMs,       \* server.js:350
    cooldownUntilMs,  \* server.js:351
    res,              \* the response of the handler that ran last
    requests          \* how many HTTP requests were served so far

vars == <<now, activeThreat, finishedThreats, lastTickMs, cooldownUntilMs, res, requests>>

----------------------------------------------------------------------------
(* Bounds of the model *)

MaxSteps == 6      \* the clock advances at most this many grid steps
MaxRequests == 2    \* the server handles at most this many HTTP requests
MaxLag == 2         \* a tick is at most this many grid steps late
DifficultySpan == 13  \* difficulties tried range over -DifficultySpan..DifficultySpan
TickHorizon == 1830   \* seconds of ticking followed after a spawn
ArriveHorizon == 30   \* seconds followed when assigns arrive between ticks

(* The clock moves on a grid of 30 minutes, starting one hour after 0. *)
Grid == 30 * 60 * 1000
Epoch == 60 * 60 * 1000
MaxNow == Epoch + MaxSteps * Grid

----------------------------------------------------------------------------
(* JavaScript values *)

Num(n) == [k |-> "num", n |-> n]
NaN == [k |-> "nan", n |-> 0]
Undef == [k |-> "undef", n |-> 0]
Str == [k |-> "str", n |-> 0]

IsNum(v) == v.k = "num"

\* v || 0 : undefined, null, NaN and 0 are falsy; a non-empty string is kept
OrZero(v) == IF v.k \in {"undef", "nan"} THEN Num(0) ELSE v

\* v ?? d : only undefined and null are replaced
Nullish(v, d) == IF v.k = "undef" THEN d ELSE v

\* typeof v === "number" ? v : d
NumberOr(v, d) == IF v.k \in {"num", "nan"} THEN v ELSE d

\* a + b : string concatenation as soon as one side is a string
JsAdd(a, b) ==
    IF a.k = "str" \/ b.k = "str" THEN Str
    ELSE IF IsNum(a) /\ IsNum(b) THEN Num(a.n + b.n)
    ELSE NaN

\* a - b : both sides are converted to numbers
JsSub(a, b) == IF IsNum(a) /\ IsNum(b) THEN Num(a.n - b.n) ELSE NaN

\* a * b : both sides are converted to numbers
JsMul(a, b) == IF IsNum(a) /\ IsNum(b) THEN Num(a.n * b.n) ELSE NaN

\* a <= b, a >= b, a > b, a < b : false as soon as one side is NaN
JsLeq(a, b) == IsNum(a) /\ IsNum(b) /\ a.n <= b.n
JsGeq(a, b) == IsNum(a) /\ IsNum(b) /\ a.n >= b.n
JsGt(a, b) == IsNum(a) /\ IsNum(b) /\ a.n > b.n
JsLt(a, b) == IsNum(a) /\ IsNum(b) /\ a.n < b.n

\* Math.max(a, b), Math.min(a, b) : NaN as soon as one side is NaN
JsMax(a, b) ==
    IF IsNum(a) /\ IsNum(b) THEN (IF a.n >= b.n THEN a ELSE b) ELSE NaN
JsMin(a, b) ==
    IF IsNum(a) /\ IsNum(b) THEN (IF a.n <= b.n THEN a ELSE b) ELSE NaN

----------------------------------------------------------------------------
(* Configuration: src/unnamed/part_001 and server.js:342-345 *)

WT_BASE_RATE_MILLI == 1       \* WORLD_THREAT_BASE_PROGRESS_RATE = 0.001
HP_LOSS_PER_MIN == 1
SAN_LOSS_PER_MIN == 2
COOLDOWN_MIN == 30
ARCHIVE_CAP == 50
DEFAULT_VITAL == 30           \* a.health ?? 30, a.sanity ?? 30
SKILL_BONUS == 2
EASY_SCALAR_TENTHS == 1       \* EASY_SCALAR = 0.10

\* speeds of the catalog's difficulties are 10, 11, 12, 13 tenths; their
\* least common multiple makes every drain a whole number of units
SpeedLcm == 2 * 2 * 3 * 5 * 11 * 13
HpUnit == 60 * SpeedLcm
ProgressUnit == 1000 * 10 * 10
ProgressCap == 100 * ProgressUnit

threatTemplates == <<
    [id |-> "wt_ito", primaryStat |-> "Occultism",
     skills |-> <<"Psychology", "Research">>, difficulty |-> 8,
     lifetimeMinutes |-> 150],
    [id |-> "wt_re", primaryStat |-> "Courage",
     skills |-> <<"Firearms", "Biology">>, difficulty |-> 9,
     lifetimeMinutes |-> 180],
    [id |-> "wt_lovecraft", primaryStat |-> "Occultism",
     skills |-> <<"Theology", "Linguistics">>, difficulty |-> 10,
     lifetimeMinutes |-> 180],
    [id |-> "wt_conjuring", primaryStat |-> "Occultism",
     skills |-> <<"Exorcism", "Theology">>, difficulty |-> 7,
     lifetimeMinutes |-> 120] >>

\* Math.random().toString(36).slice(2, 10): some suffix, not always fresh
Suffixes == {"k3x9"}

\* the catalog entries rngPick is seen to return
TemplatePicks == {4}

\* the catalog entries whose instance ids arrive in request paths
PathTemplates == {2, 4}

NULL == [null |-> TRUE]

\* every instance given the default lifetime of 180 minutes
createThreatInstance_defaultLifetime(template, suffix, t) ==
    [instanceId |-> <<template.id, suffix>>,
     templateId |-> template.id,
     primaryStat |-> template.primaryStat,
     skills |-> template.skills,
     difficulty |-> Num(template.difficulty),
     progress |-> Num(0),
     status |-> "active",
     assignedAgents |-> <<>>,
     createdAt |-> t,
     lastTick |-> t,
     expiresAt |-> t + 180 * 60 * 1000]

createThreatInstance(template, suffix, t) ==
    [instanceId |-> <<template.id, suffix>>,
     templateId |-> template.id,
     primaryStat |-> template.primaryStat,
     skills |-> template.skills,
     difficulty |-> Num(template.difficulty),
     progress |-> Num(0),
     status |-> "active",
     assignedAgents |-> <<>>,
     createdAt |-> t,
     lastTick |-> t,
     expiresAt |-> t + template.lifetimeMinutes * 60 * 1000]

----------------------------------------------------------------------------
(* Sequence helpers *)

RECURSIVE SeqSum(_)
SeqSum(s) == IF s = <<>> THEN Num(0) ELSE JsAdd(SeqSum(SubSeq(s, 1, Len(s) - 1)), s[Len(s)])

RECURSIVE Flatten(_)
Flatten(ss) == IF ss = <<>> THEN <<>> ELSE Head(ss) \o Flatten(Tail(ss))

\* arr.slice(0, n)
Slice(s, n) == SubSeq(s, 1, IF Len(s) < n THEN Len(s) ELSE n)

----------------------------------------------------------------------------
(* Difficulty easing and power: server.js:364-396 *)

\* getDifficultySpeed, in tenths
getDifficultySpeed(threat) ==
    LET raw == threat.difficulty
        num == IF IsNum(raw) /\ raw.n # 0 THEN raw.n ELSE 10
        d == IF num > 10 THEN 10 ELSE IF num < 1 THEN 1 ELSE num
    IN  10 + (10 - d) * EASY_SCALAR_TENTHS

\* computeAgentPower, in tenths
computeAgentPower(agent, threat) ==
    LET c == OrZero(agent.courage)
        i == OrZero(agent.investigation)
        o == OrZero(agent.occultism)
        primary == IF threat.primaryStat = "Courage" THEN c
                   ELSE IF threat.primaryStat = "Investigation" THEN i
                   ELSE o
        statSum == JsAdd(JsAdd(c, i), o)
        need == threat.skills
        matches == Cardinality({k \in 1..Len(need) : need[k] \in agent.skills})
        skillBonus == Num(matches * SKILL_BONUS * 10)
        basePower == JsAdd(JsAdd(JsMul(primary, Num(15)), JsMul(statSum, Num(6))),
                           skillBonus)
        powerMult == NumberOr(agent.worldThreatModifiers.powerMultiplier, Num(1))
    IN  JsMax(Num(0), JsMul(basePower, powerMult))

----------------------------------------------------------------------------
(* Termination and archival: server.js:407-432 *)

\* only the player of the first bundle
buildEligibilityMap_first(threat) ==
    IF threat.assignedAgents = <<>> THEN {} ELSE {threat.assignedAgents[1].playerId}

\* buildEligibilityMap: the keys of the map
buildEligibilityMap(threat) ==
    {threat.assignedAgents[k].playerId : k \in
        {j \in 1..Len(threat.assignedAgents) : threat.assignedAgents[j].playerId # ""}}

\* the archived record with the status left as it was
endedRecord_keepStatus(threat, status, t) ==
    [instanceId |-> threat.instanceId,
     templateId |-> threat.templateId,
     primaryStat |-> threat.primaryStat,
     skills |-> threat.skills,
     difficulty |-> threat.difficulty,
     progress |-> threat.progress,
     status |-> "active",
     assignedAgents |-> threat.assignedAgents,
     createdAt |-> threat.createdAt,
     lastTick |-> threat.lastTick,
     expiresAt |-> threat.expiresAt,
     eligibleForRewardByPlayerId |-> {},
     endedAt |-> t]

\* the record endActiveThreat archives (server.js:419-424)
endedRecord(threat, status, t) ==
    [instanceId |-> threat.instanceId,
     templateId |-> threat.templateId,
     primaryStat |-> threat.primaryStat,
     skills |-> threat.skills,
     difficulty |-> threat.difficulty,
     progress |-> threat.progress,
     status |-> status,
     assignedAgents |-> threat.assignedAgents,
     createdAt |-> threat.createdAt,
     lastTick |-> threat.lastTick,
     expiresAt |-> threat.expiresAt,
     eligibleForRewardByPlayerId |-> buildEligibilityMap(threat),
     endedAt |-> t]

\* at the cap, the newest archived record gives way instead of the oldest
archivePush_keepOldest(archive, ended) ==
    IF Len(archive) >= ARCHIVE_CAP THEN <<ended>> \o Tail(archive)
    ELSE <<ended>> \o archive

\* finishedThreats.unshift(ended), then the trim to the last 50
archivePush(archive, ended) == Slice(<<ended>> \o archive, ARCHIVE_CAP)

\* cooldownUntilMs = Date.now() + COOLDOWN_MIN * 60 * 1000
cooldownAfter(t) == t + COOLDOWN_MIN * 60 * 1000

\* the archived records stamped again at every termination
endActiveThreat_restamp(threat, status) ==
    /\ finishedThreats' =
            archivePush([k \in 1..Len(finishedThreats) |->
                            [finishedThreats[k] EXCEPT !.endedAt = now]],
                        endedRecord(threat, status, now))
    /\ activeThreat' = NULL
    /\ cooldownUntilMs' = cooldownAfter(now)

\* endActiveThreat(status) on the active threat `threat`
endActiveThreat(threat, status) ==
    /\ finishedThreats' = archivePush(finishedThreats, endedRecord(threat, status, now))
    /\ activeThreat' = NULL
    /\ cooldownUntilMs' = cooldownAfter(now)

\* spawnThreat: rngPick over the catalog, a fresh instance, the tick clock reset
spawnThreat ==
    \E k \in TemplatePicks, suffix \in Suffixes :
        /\ activeThreat' = createThreatInstance(threatTemplates[k], suffix, now)
        /\ lastTickMs' = now

----------------------------------------------------------------------------
(* The tick: server.js:435-511 *)

\* lines 469-493 for one agent: the agent after the drain
drainAgent(agent, threat, elapsedSec) ==
    LET mods == agent.worldThreatModifiers
        healthMult == NumberOr(mods.healthLossMultiplier, Num(1))
        sanityMult == NumberOr(mods.sanityLossMultiplier, Num(1))
        perSpeed == (10 * SpeedLcm) \div getDifficultySpeed(threat)
        hpLoss == JsMul(Num(HP_LOSS_PER_MIN * elapsedSec * perSpeed), healthMult)
        sanLoss == JsMul(Num(SAN_LOSS_PER_MIN * elapsedSec * perSpeed), sanityMult)
    IN  [agent EXCEPT !.health = JsSub(Nullish(agent.health, Num(0)), hpLoss),
                      !.sanity = JsSub(Nullish(agent.sanity, Num(0)), sanLoss)]

\* line 488: downed or broken
isDowned(agent) == JsLeq(agent.health, Num(0)) \/ JsLeq(agent.sanity, Num(0))

\* lines 466-497 for one bundle
drainBundle(bundle, threat, elapsedSec) ==
    LET drained == [k \in 1..Len(bundle.agents) |->
                        drainAgent(bundle.agents[k], threat, elapsedSec)]
    IN  [bundle EXCEPT !.agents = SelectSeq(drained, LAMBDA a : ~isDowned(a))]

\* lines 465-499: every bundle drained, the empty ones filtered out
drainBundles(threat, elapsedSec) ==
    LET mapped == [k \in 1..Len(threat.assignedAgents) |->
                        drainBundle(threat.assignedAgents[k], threat, elapsedSec)]
    IN  SelectSeq(mapped, LAMBDA b : Len(b.agents) > 0)

\* every agent of a bundle list, in order
allAgents(bundles) == Flatten([k \in 1..Len(bundles) |-> bundles[k].agents])

\* totalPower as accumulated at line 494 / line 536
totalPowerOf(agents, threat) ==
    SeqSum([k \in 1..Len(agents) |-> computeAgentPower(agents[k], threat)])

\* lines 502-503
advanceProgress(progress, elapsedSec, totalPower, speed) ==
    LET progressDelta ==
            JsMul(JsMul(JsMul(Num(elapsedSec), totalPower), Num(WT_BASE_RATE_MILLI)),
                  Num(speed))
    IN  JsMin(Num(ProgressCap), JsAdd(OrZero(progress), progressDelta))

\* the power summed over every assigned agent, the dropped ones included
steadyTick_allAgents(threat, elapsedSec, t) ==
    LET bundles == drainBundles(threat, elapsedSec)
        totalPower == totalPowerOf(allAgents(threat.assignedAgents), threat)
    IN  [threat EXCEPT
            !.assignedAgents = bundles,
            !.progress = advanceProgress(threat.progress, elapsedSec, totalPower,
                                         getDifficultySpeed(threat)),
            !.lastTick = t]

\* lines 460-504: the active threat after a steady tick
steadyTick(threat, elapsedSec, t) ==
    LET bundles == drainBundles(threat, elapsedSec)
        totalPower == totalPowerOf(allAgents(bundles), threat)
    IN  [threat EXCEPT
            !.assignedAgents = bundles,
            !.progress = advanceProgress(threat.progress, elapsedSec, totalPower,
                                         getDifficultySpeed(threat)),
            !.lastTick = t]

\* the clear test with > in place of >=
isCleared_strict(threat) == JsGt(threat.progress, Num(ProgressCap))

\* line 507
isCleared(threat) == JsGeq(threat.progress, Num(ProgressCap))

\* the expiry test with > in place of >=
isExpired_strict(threat, t) == t > threat.expiresAt /\ threat.status = "active"

\* only an instance nobody is assigned to runs out
isExpired_unmanned(threat, t) ==
    t >= threat.expiresAt /\ threat.status = "active" /\ threat.assignedAgents = <<>>

\* line 453
isExpired(threat, t) == t >= threat.expiresAt /\ threat.status = "active"

\* the spawn test without the cooldown
cooldownPassed_always(t) == t >= 0

\* the spawn one instant after the cooldown
cooldownPassed_strict(t) == t > cooldownUntilMs

\* line 443
cooldownPassed(t) == t >= cooldownUntilMs

Resp(op, code) ==
    [op |-> op, code |-> code, branch |-> "", playerId |-> "", elapsedSec |-> 0]

\* the tick clock set only once the cooldown has passed
tickThreats_lateClock ==
    LET elapsedMs == now - lastTickMs
        elapsedSec == elapsedMs \div 1000
        r == [Resp("tick", 0) EXCEPT !.elapsedSec = elapsedSec]
    IN
    /\ UNCHANGED <<now, requests>>
    /\ IF elapsedMs <= 0
       THEN /\ res' = [r EXCEPT !.branch = "skip"]
            /\ UNCHANGED <<activeThreat, finishedThreats, lastTickMs, cooldownUntilMs>>
       ELSE IF activeThreat = NULL
       THEN IF cooldownPassed(now)
            THEN /\ spawnThreat
                 /\ res' = [r EXCEPT !.branch = "spawn"]
                 /\ UNCHANGED <<finishedThreats, cooldownUntilMs>>
            ELSE /\ res' = [r EXCEPT !.branch = "cooldown"]
                 /\ UNCHANGED <<activeThreat, finishedThreats, cooldownUntilMs,
                                lastTickMs>>
       ELSE IF isExpired(activeThreat, now)
       THEN /\ lastTickMs' = now
            /\ endActiveThreat([activeThreat EXCEPT !.status = "expired"], "expired")
            /\ res' = [r EXCEPT !.branch = "expired"]
       ELSE IF activeThreat.status # "active"
       THEN /\ lastTickMs' = now
            /\ res' = [r EXCEPT !.branch = "inactive"]
            /\ UNCHANGED <<activeThreat, finishedThreats, cooldownUntilMs>>
       ELSE LET t == steadyTick(activeThreat, elapsedSec, now)
            IN  /\ lastTickMs' = now
                /\ IF isCleared(t)
                   THEN /\ endActiveThreat([t EXCEPT !.status = "cleared"], "cleared")
                        /\ res' = [r EXCEPT !.branch = "cleared"]
                   ELSE /\ activeThreat' = t
                        /\ res' = [r EXCEPT !.branch = "steady"]
                        /\ UNCHANGED <<finishedThreats, cooldownUntilMs>>

\* tickThreats, one run of the interval callback
tickThreats ==
    LET elapsedMs == now - lastTickMs
        elapsedSec == elapsedMs \div 1000
        r == [Resp("tick", 0) EXCEPT !.elapsedSec = elapsedSec]
    IN
    /\ UNCHANGED <<now, requests>>
    /\ IF elapsedMs <= 0
       THEN /\ res' = [r EXCEPT !.branch = "skip"]
            /\ UNCHANGED <<activeThreat, finishedThreats, lastTickMs, cooldownUntilMs>>
       ELSE IF activeThreat = NULL
       THEN IF cooldownPassed(now)
            THEN /\ spawnThreat
                 /\ res' = [r EXCEPT !.branch = "spawn"]
                 /\ UNCHANGED <<finishedThreats, cooldownUntilMs>>
            ELSE /\ lastTickMs' = now
                 /\ res' = [r EXCEPT !.branch = "cooldown"]
                 /\ UNCHANGED <<activeThreat, finishedThreats, cooldownUntilMs>>
       ELSE IF isExpired(activeThreat, now)
       THEN /\ lastTickMs' = now
            /\ endActiveThreat([activeThreat EXCEPT !.status = "expired"], "expired")
            /\ res' = [r EXCEPT !.branch = "expired"]
       ELSE IF activeThreat.status # "active"
       THEN /\ lastTickMs' = now
            /\ res' = [r EXCEPT !.branch = "inactive"]
            /\ UNCHANGED <<activeThreat, finishedThreats, cooldownUntilMs>>
       ELSE LET t == steadyTick(activeThreat, elapsedSec, now)
            IN  /\ lastTickMs' = now
                /\ IF isCleared(t)
                   THEN /\ endActiveThreat([t EXCEPT !.status = "cleared"], "cleared")
                        /\ res' = [r EXCEPT !.branch = "cleared"]
                   ELSE /\ activeThreat' = t
                        /\ res' = [r EXCEPT !.branch = "steady"]
                        /\ UNCHANGED <<finishedThreats, cooldownUntilMs>>

----------------------------------------------------------------------------
(* Request payloads *)

Players == {"p1", "p2"}
PlayerIds == Players \cup {""}           \* "" is a missing playerId

NoMods == [powerMultiplier |-> Undef, healthLossMultiplier |-> Undef,
           sanityLossMultiplier |-> Undef]

RawAgent(id) ==
    [agentId |-> id, courage |-> Undef, investigation |-> Undef,
     occultism |-> Undef, health |-> Undef, sanity |-> Undef,
     skills |-> [isArray |-> FALSE, items |-> {}],
     worldThreatModifiers |-> NoMods]

\* primary stat 10, everything else left to the defaults
Rookie == [RawAgent("rookie") EXCEPT !.courage = Num(10)]

\* little power, lasts several grid steps
Scout ==
    [RawAgent("scout") EXCEPT
        !.occultism = Num(1), !.health = Num(100), !.sanity = Num(200)]

\* enough power to clear a threat within one grid step
Veteran ==
    [RawAgent("veteran") EXCEPT
        !.courage = Num(60), !.occultism = Num(60),
        !.health = Num(60), !.sanity = Num(90),
        !.skills = [isArray |-> TRUE, items |-> {"Theology", "Firearms"}],
        !.worldThreatModifiers = [NoMods EXCEPT !.powerMultiplier = Num(1)]]

\* submitted already downed
Downed == [RawAgent("downed") EXCEPT !.courage = Num(10), !.health = Num(0)]

\* strings where numbers are expected: {courage: "abc", health: "abc", sanity: 200}
Garbled ==
    [RawAgent("garbled") EXCEPT !.courage = Str, !.health = Str, !.sanity = Num(200)]

\* a null entry of the agents array
NullEntry == [RawAgent("null") EXCEPT !.agentId = ""]

\* agents: an array of entries, or something that is not an array
Roster(items) == [isArray |-> TRUE, items |-> items]
NotAnArray == [isArray |-> FALSE, items |-> <<>>]
\* four agents, one more than an assign keeps
Squad == <<Rookie, Scout, Downed, Veteran>>

Rosters ==
    { Roster(<<>>), Roster(<<Veteran>>), Roster(Squad),
      Roster(<<Downed>>), Roster(<<Garbled>>), Roster(<<NullEntry>>) }

Body(p, d, a) == [playerId |-> p, directorName |-> d, agents |-> a]

\* one body for each missing field
BadBodies ==
    { Body("", "Director", Roster(<<Scout>>)), Body("p1", "", Roster(<<Scout>>)),
      Body("p1", "Director", NotAnArray) }

\* the bodies sent to POST /world-threats/assign
AssignBodies ==
    {Body("p1", "Director", a) : a \in Rosters}
    \cup {Body("p2", "Director", Roster(<<Scout>>)),
          Body("p2", "Director", Roster(<<Veteran>>))}
    \cup BadBodies

\* the bodies sent to POST /world-threats/:instanceId/assign
AssignByIdBodies ==
    { Body("p1", "Director", Roster(<<Veteran>>)),
      Body("p2", "Director", Roster(<<Scout>>)),
      Body("p1", "", Roster(<<Scout>>)) }

\* the instance ids a path can carry
InstanceIds == {<<threatTemplates[k].id, s>> : k \in PathTemplates, s \in Suffixes}

----------------------------------------------------------------------------
(* Assign and unassign: server.js:564-661 *)

\* a health or sanity number of the payload, in the units of the model
ToVital(v) == IF IsNum(v) THEN Num(v.n * HpUnit) ELSE v

\* lines 574-586: the snapshot stored for one submitted agent
\* (name, portraitUrl and statModifiers are carried along and never read)
snapshot(a) ==
    [agentId |-> a.agentId,
     courage |-> OrZero(a.courage),
     investigation |-> OrZero(a.investigation),
     occultism |-> OrZero(a.occultism),
     health |-> ToVital(Nullish(a.health, Num(DEFAULT_VITAL))),
     sanity |-> ToVital(Nullish(a.sanity, Num(DEFAULT_VITAL))),
     skills |-> IF a.skills.isArray THEN a.skills.items ELSE {},
     worldThreatModifiers |-> a.worldThreatModifiers]

\* every submitted agent kept
snapshots_all(agents) ==
    [k \in 1..Len(agents.items) |-> snapshot(agents.items[k])]

\* lines 573-586
snapshots(agents) ==
    LET limited == Slice(agents.items, 3)
    IN  [k \in 1..Len(limited) |-> snapshot(limited[k])]

\* bundles.findIndex((b) => b.playerId === playerId), 0 when there is none
findIndex(bundles, playerId) ==
    LET hits == {k \in 1..Len(bundles) : bundles[k].playerId = playerId}
    IN  IF hits = {} THEN 0 ELSE CHOOSE k \in hits : \A j \in hits : k <= j

\* the bundle always appended
putBundle_append(bundles, playerId, directorName, agents) ==
    Append(bundles, [playerId |-> playerId, directorName |-> directorName,
                     agents |-> snapshots(agents)])

\* lines 588-593: replace the player's bundle or append one
putBundle(bundles, playerId, directorName, agents) ==
    LET idx == findIndex(bundles, playerId)
        bundle == [playerId |-> playerId, directorName |-> directorName,
                   agents |-> snapshots(agents)]
    IN  IF idx > 0 THEN [bundles EXCEPT ![idx] = bundle]
        ELSE Append(bundles, bundle)

\* the filter inverted
dropBundle_inverted(bundles, playerId) ==
    SelectSeq(bundles, LAMBDA b : b.playerId = playerId)

\* lines 603-605: every bundle of the player filtered out
dropBundle(bundles, playerId) == SelectSeq(bundles, LAMBDA b : b.playerId # playerId)

\* the shared part without the directorName test
assignBody_lax(op, playerId, directorName, agents) ==
    IF playerId = "" \/ ~agents.isArray
    THEN /\ res' = [Resp(op, 400) EXCEPT !.branch = "missing"]
         /\ UNCHANGED activeThreat
    ELSE /\ activeThreat' =
                [activeThreat EXCEPT !.assignedAgents =
                    putBundle(activeThreat.assignedAgents, playerId, directorName, agents)]
         /\ res' = [Resp(op, 200) EXCEPT !.playerId = playerId]

\* the part the two assign routes share (lines 569-595 and 620-646)
assignBody(op, playerId, directorName, agents) ==
    IF playerId = "" \/ directorName = "" \/ ~agents.isArray
    THEN /\ res' = [Resp(op, 400) EXCEPT !.branch = "missing"]
         /\ UNCHANGED activeThreat
    ELSE IF \E k \in 1..Len(Slice(agents.items, 3)) : agents.items[k] = NullEntry
    THEN \* a.agentId of null throws before anything is stored
         /\ res' = [Resp(op, 500) EXCEPT !.branch = "throw"]
         /\ UNCHANGED activeThreat
    ELSE /\ activeThreat' =
                [activeThreat EXCEPT !.assignedAgents =
                    putBundle(activeThreat.assignedAgents, playerId, directorName, agents)]
         /\ res' = [Resp(op, 200) EXCEPT
                        !.playerId = playerId,
                        !.branch = IF findIndex(activeThreat.assignedAgents, playerId) > 0
                                   THEN "replace" ELSE "append"]

\* POST /world-threats/assign
Assign(playerId, directorName, agents) ==
    /\ requests < MaxRequests
    /\ requests' = requests + 1
    /\ UNCHANGED <<now, finishedThreats, lastTickMs, cooldownUntilMs>>
    /\ IF activeThreat = NULL \/ activeThreat.status # "active"
       THEN /\ res' = [Resp("assign", 400) EXCEPT !.branch = "noActive"]
            /\ UNCHANGED activeThreat
       ELSE assignBody("assign", playerId, directorName, agents)

\* POST /world-threats/:instanceId/assign
AssignById(instanceId, playerId, directorName, agents) ==
    /\ requests < MaxRequests
    /\ requests' = requests + 1
    /\ UNCHANGED <<now, finishedThreats, lastTickMs, cooldownUntilMs>>
    /\ IF activeThreat = NULL \/ activeThreat.status # "active"
       THEN /\ res' = [Resp("assignById", 400) EXCEPT !.branch = "noActive"]
            /\ UNCHANGED activeThreat
       ELSE IF activeThreat.instanceId # instanceId
       THEN /\ res' = [Resp("assignById", 404) EXCEPT !.branch = "notFound"]
            /\ UNCHANGED activeThreat
       ELSE assignBody("assignById", playerId, directorName, agents)

Unassign(playerId) ==
    /\ requests < MaxRequests
    /\ requests' = requests + 1
    /\ UNCHANGED <<now, finishedThreats, lastTickMs, cooldownUntilMs>>
    /\ IF playerId = ""
       THEN /\ res' = [Resp("unassign", 400) EXCEPT !.branch = "missing"]
            /\ UNCHANGED activeThreat
       ELSE IF activeThreat = NULL
       THEN /\ res' = [Resp("unassign", 200) EXCEPT !.playerId = playerId,
                                                   !.branch = "noActive"]
            /\ UNCHANGED activeThreat
       ELSE /\ activeThreat' =
                    [activeThreat EXCEPT !.assignedAgents =
                        dropBundle(activeThreat.assignedAgents, playerId)]
            /\ res' = [Resp("unassign", 200) EXCEPT !.playerId = playerId]

\* POST /world-threats/:instanceId/unassign
UnassignById(instanceId, playerId) ==
    /\ requests < MaxRequests
    /\ requests' = requests + 1
    /\ UNCHANGED <<now, finishedThreats, lastTickMs, cooldownUntilMs>>
    /\ IF playerId = ""
       THEN /\ res' = [Resp("unassignById", 400) EXCEPT !.branch = "missing"]
            /\ UNCHANGED activeThreat
       ELSE IF activeThreat = NULL \/ activeThreat.instanceId # instanceId
       THEN /\ res' = [Resp("unassignById", 404) EXCEPT !.branch = "notFound"]
            /\ UNCHANGED activeThreat
       ELSE /\ activeThreat' =
                    [activeThreat EXCEPT !.assignedAgents =
                        dropBundle(activeThreat.assignedAgents, playerId)]
            /\ res' = [Resp("unassignById", 200) EXCEPT !.playerId = playerId]

----------------------------------------------------------------------------
(* The list query: server.js:523-561 *)

Floor1000(x) == IF x >= 0 THEN x \div 1000 ELSE -((999 - x) \div 1000)

\* the three fields decorate adds (lines 525-545)
decoration(t, at) ==
    LET secondsToExpiry ==
            IF Floor1000(t.expiresAt - at) > 0 THEN Floor1000(t.expiresAt - at) ELSE 0
        totalPower == totalPowerOf(allAgents(t.assignedAgents), t)
        perSec == JsMul(JsMul(totalPower, Num(WT_BASE_RATE_MILLI)),
                        Num(getDifficultySpeed(t)))
        hasEta == /\ t.status = "active"
                  /\ JsGt(perSec, Num(0))
                  /\ JsLt(t.progress, Num(ProgressCap))
        remaining == ProgressCap - t.progress.n
        etaMs == (remaining \div perSec.n) * 1000
                    + ((remaining % perSec.n) * 1000) \div perSec.n
    IN  [secondsToExpiry |-> secondsToExpiry,
         etaSecondsToCompletion |->
            IF hasEta THEN [n |-> remaining, d |-> perSec.n] ELSE NULL,
         etaCompletionAt |-> IF hasEta THEN Num(at + etaMs) ELSE Undef]

\* decorate: the instance with the three fields added
decorate(t, at) == t @@ decoration(t, at)

\* the comparator with a and b exchanged: oldest first
RECURSIVE insertByCreatedAt_asc(_, _)
insertByCreatedAt_asc(sorted, x) ==
    IF sorted = <<>> THEN <<x>>
    ELSE IF Head(sorted).createdAt <= x.createdAt
    THEN <<Head(sorted)>> \o insertByCreatedAt_asc(Tail(sorted), x)
    ELSE <<x>> \o sorted

\* list.sort((a, b) => new Date(b.createdAt) - new Date(a.createdAt)): stable
RECURSIVE insertByCreatedAt(_, _)
insertByCreatedAt(sorted, x) ==
    IF sorted = <<>> THEN <<x>>
    ELSE IF Head(sorted).createdAt >= x.createdAt
    THEN <<Head(sorted)>> \o insertByCreatedAt(Tail(sorted), x)
    ELSE <<x>> \o sorted

RECURSIVE sortByCreatedAtDesc(_)
sortByCreatedAtDesc(list) ==
    IF list = <<>> THEN <<>>
    ELSE insertByCreatedAt(sortByCreatedAtDesc(SubSeq(list, 1, Len(list) - 1)),
                           list[Len(list)])

\* lines 555-559
listing(at) ==
    LET head == IF activeThreat = NULL THEN <<>> ELSE <<decorate(activeThreat, at)>>
        tail == [k \in 1..Len(finishedThreats) |-> decorate(finishedThreats[k], at)]
    IN  sortByCreatedAtDesc(head \o tail)

\* the agents decorate hands to computeAgentPower (lines 532-538)
listPowered ==
    IF activeThreat # NULL /\ activeThreat.status = "active"
    THEN allAgents(activeThreat.assignedAgents) ELSE <<>>

\* the list query restarting the tick clock
List_ticks ==
    /\ requests < MaxRequests
    /\ requests' = requests + 1
    /\ res' = Resp("list", 200)
    /\ lastTickMs' = now
    /\ UNCHANGED <<now, activeThreat, finishedThreats, cooldownUntilMs>>

\* GET /world-threats
List ==
    /\ requests < MaxRequests
    /\ requests' = requests + 1
    /\ res' = Resp("list", 200)
    /\ UNCHANGED <<now, activeThreat, finishedThreats, lastTickMs, cooldownUntilMs>>

----------------------------------------------------------------------------
(* Admin endpoints: server.js:666-683 *)

\* the force-finish archiving the progress as it stands
AdminFinish_keepProgress ==
    /\ requests < MaxRequests
    /\ requests' = requests + 1
    /\ UNCHANGED <<now, lastTickMs>>
    /\ IF activeThreat = NULL
       THEN /\ res' = [Resp("finish", 400) EXCEPT !.branch = "noActive"]
            /\ UNCHANGED <<activeThreat, finishedThreats, cooldownUntilMs>>
       ELSE /\ endActiveThreat([activeThreat EXCEPT !.status = "cleared"], "cleared")
            /\ res' = Resp("finish", 200)

\* POST /world-threats/admin/finish
AdminFinish ==
    /\ requests < MaxRequests
    /\ requests' = requests + 1
    /\ UNCHANGED <<now, lastTickMs>>
    /\ IF activeThreat = NULL
       THEN /\ res' = [Resp("finish", 400) EXCEPT !.branch = "noActive"]
            /\ UNCHANGED <<activeThreat, finishedThreats, cooldownUntilMs>>
       ELSE /\ endActiveThreat([activeThreat EXCEPT !.progress = Num(ProgressCap),
                                                    !.status = "cleared"], "cleared")
            /\ res' = Resp("finish", 200)

\* the force-cycle leaving the cooldown as it stands
AdminCycle_keepCooldown ==
    /\ requests < MaxRequests
    /\ requests' = requests + 1
    /\ now' = now
    /\ IF activeThreat # NULL
       THEN finishedThreats' =
                archivePush(finishedThreats,
                    endedRecord([activeThreat EXCEPT !.status = "expired"], "expired", now))
       ELSE UNCHANGED finishedThreats
    /\ UNCHANGED cooldownUntilMs
    /\ spawnThreat
    /\ res' = Resp("cycle", 200)

\* POST /world-threats/admin/cycle
AdminCycle ==
    /\ requests < MaxRequests
    /\ requests' = requests + 1
    /\ now' = now
    /\ IF activeThreat # NULL
       THEN finishedThreats' =
                archivePush(finishedThreats,
                    endedRecord([activeThreat EXCEPT !.status = "expired"], "expired", now))
       ELSE UNCHANGED finishedThreats
    /\ cooldownUntilMs' = 0
    /\ spawnThreat
    /\ res' = Resp("cycle", 200)

----------------------------------------------------------------------------
(* The clock and the server as a whole *)

\* time passes
Advance ==
    /\ now + Grid <= MaxNow
    /\ now + Grid - lastTickMs <= MaxLag * Grid
    /\ now' = now + Grid
    /\ UNCHANGED <<activeThreat, finishedThreats, lastTickMs, cooldownUntilMs, res, requests>>

\* setInterval(tickThreats, 1000), server.js:513
Tick == tickThreats

Init ==
    /\ now = Epoch
    /\ activeThreat = NULL
    /\ finishedThreats = <<>>
    /\ lastTickMs = Epoch
    /\ cooldownUntilMs = 0
    /\ res = Resp("boot", 0)
    /\ requests = 0

DoAssign == \E b \in AssignBodies : Assign(b.playerId, b.directorName, b.agents)
DoAssignById ==
    \E id \in InstanceIds, b \in AssignByIdBodies :
        AssignById(id, b.playerId, b.directorName, b.agents)
DoUnassign == \E p \in PlayerIds : Unassign(p)
DoUnassignById == \E id \in InstanceIds, p \in PlayerIds : UnassignById(id, p)

Next ==
    \/ Advance
    \/ Tick
    \/ DoAssign
    \/ DoAssignById
    \/ DoUnassign
    \/ DoUnassignById
    \/ List
    \/ AdminFinish
    \/ AdminCycle

Spec == Init /\ [][Next]_vars

----------------------------------------------------------------------------
(* A server whose archive is full: the admin cycle was called once per tick
   period for ARCHIVE_CAP + 1 periods, the last time one period before Epoch,
   and the tick at Epoch found the newest instance without agents. *)

TICK_MS == 1000     \* setInterval(tickThreats, 1000)

\* the instance the cycle at Epoch - k periods spawned
cycled(k) ==
    createThreatInstance(threatTemplates[CHOOSE t \in TemplatePicks : TRUE],
                         CHOOSE x \in Suffixes : TRUE, Epoch - k * TICK_MS)

\* the k-th newest record of the archive: spawned by one cycle, expired by the next
cycledOut(k) ==
    endedRecord([cycled(k + 1) EXCEPT !.status = "expired"], "expired",
                Epoch - k * TICK_MS)

InitArchive ==
    /\ now = Epoch
    /\ activeThreat = [cycled(1) EXCEPT !.lastTick = Epoch]
    /\ finishedThreats = [k \in 1..ARCHIVE_CAP |-> cycledOut(k)]
    /\ lastTickMs = Epoch
    /\ cooldownUntilMs = 0
    /\ res = Resp("boot", 0)
    /\ requests = 0

SpecArchive == InitArchive /\ [][Next]_vars

----------------------------------------------------------------------------
(* getDifficultySpeed as a function of its argument: a threat of any catalog
   entry whose difficulty is any value, and one call on it. *)

DifficultyInputs ==
    {Num(d) : d \in (-DifficultySpan)..DifficultySpan} \cup {NaN, Undef, Str}

SpeedInit ==
    /\ now = Epoch
    /\ \E k \in 1..Len(threatTemplates), suffix \in Suffixes, d \in DifficultyInputs :
          activeThreat =
              [createThreatInstance(threatTemplates[k], suffix, Epoch)
                  EXCEPT !.difficulty = d]
    /\ finishedThreats = <<>>
    /\ lastTickMs = Epoch
    /\ cooldownUntilMs = 0
    /\ res = Resp("boot", 0)
    /\ requests = 0

\* const difficultySpeed = getDifficultySpeed(t)
ApplySpeed ==
    /\ res.op = "boot"
    /\ res' = [op |-> "speed", value |-> getDifficultySpeed(activeThreat)]
    /\ UNCHANGED <<now, activeThreat, finishedThreats, lastTickMs, cooldownUntilMs,
                   requests>>

SpeedNext == ApplySpeed

SpecSpeed == SpeedInit /\ [][SpeedNext]_vars

----------------------------------------------------------------------------
(* The tick on a freshly spawned instance of any catalog entry, with the
   bundles one or two assigns stored at the spawn instant, ticked at intervals
   of ten seconds or half an hour. *)

\* primary stat 10 for the Occultism threats, nothing else
Adept == [RawAgent("adept") EXCEPT !.occultism = Num(10)]

\* loss multipliers below zero
Healer ==
    [RawAgent("healer") EXCEPT
        !.occultism = Num(5), !.health = Num(40), !.sanity = Num(40),
        !.worldThreatModifiers =
            [NoMods EXCEPT !.healthLossMultiplier = Num(-1),
                           !.sanityLossMultiplier = Num(-1)]]

\* loss multipliers above one
Frail ==
    [RawAgent("frail") EXCEPT
        !.courage = Num(20), !.health = Num(40), !.sanity = Num(40),
        !.worldThreatModifiers =
            [NoMods EXCEPT !.healthLossMultiplier = Num(2),
                           !.sanityLossMultiplier = Num(3)]]

TickRosters ==
    { Roster(<<>>), Roster(<<Adept>>), Roster(<<Rookie>>), Roster(<<Veteran>>),
      Roster(Squad), Roster(<<Healer>>), Roster(<<Frail, Adept>>),
      Roster(<<Garbled>>) }

\* the bundles after p1's assign and, possibly, p2's
TickBundles ==
    {putBundle(<<>>, "p1", "Director", a) : a \in TickRosters}
    \cup {putBundle(putBundle(<<>>, "p1", "Director", a), "p2", "Director",
                     Roster(<<Scout>>)) : a \in TickRosters}

ElapsedSteps == {10, 1800}      \* seconds

TickInit ==
    /\ now = Epoch
    /\ \E k \in 1..Len(threatTemplates), suffix \in Suffixes, b \in TickBundles :
          activeThreat =
              [createThreatInstance(threatTemplates[k], suffix, Epoch)
                  EXCEPT !.assignedAgents = b]
    /\ finishedThreats = <<>>
    /\ lastTickMs = Epoch
    /\ cooldownUntilMs = 0
    /\ res = Resp("boot", 0)
    /\ requests = 0

\* the time to the next run of the interval callback
Pass ==
    \E e \in ElapsedSteps :
        /\ now = lastTickMs
        /\ now + e * 1000 <= Epoch + TickHorizon * 1000
        /\ now' = now + e * 1000
        /\ UNCHANGED <<activeThreat, finishedThreats, lastTickMs, cooldownUntilMs,
                       res, requests>>

TickNext == Pass \/ Tick

SpecTick == TickInit /\ [][TickNext]_vars

----------------------------------------------------------------------------
(* An assign between two ticks: a freshly spawned instance, empty or holding
   p2's bundle since the spawn; time passes up to the instant the next tick is
   due, the assign requests arrive at that instant and the tick runs after
   them. *)

ArriveInit ==
    /\ now = Epoch
    /\ \E k \in 1..Len(threatTemplates), suffix \in Suffixes,
          b \in {<<>>, putBundle(<<>>, "p2", "Director", Roster(<<Scout>>))} :
          activeThreat =
              [createThreatInstance(threatTemplates[k], suffix, Epoch)
                  EXCEPT !.assignedAgents = b]
    /\ finishedThreats = <<>>
    /\ lastTickMs = Epoch
    /\ cooldownUntilMs = 0
    /\ res = Resp("boot", 0)
    /\ requests = 0

\* the time to the instant the next tick is due: ten or twenty seconds
Due ==
    \E e \in {10, 20} :
        /\ now = lastTickMs
        /\ now + e * 1000 <= Epoch + ArriveHorizon * 1000
        /\ now' = now + e * 1000
        /\ UNCHANGED <<activeThreat, finishedThreats, lastTickMs, cooldownUntilMs,
                       res, requests>>

\* POST /world-threats/assign, handled after the last tick and before the next
Arrive == now > lastTickMs /\ DoAssign

ArriveNext == Due \/ Arrive \/ Tick

SpecArrive == ArriveInit /\ [][ArriveNext]_vars

----------------------------------------------------------------------------
(* The server while time advances and the interval callback keeps running:
   the clock moves on whenever it may, and a tick that is due is run; assigns,
   unassigns and a forced finish arrive in between. *)

\* a run of the interval callback that is due, told by what every such run does
\* (lines 436-439): it serves no request and moves the tick clock to the instant
TickRuns ==
    /\ now > lastTickMs
    /\ lastTickMs' = now
    /\ now' = now
    /\ requests' = requests

\* the assigns that arrive: one that clears the threat within a grid step, one
\* whose agent is never drained and gives no progress, one of little power
LiveBodies ==
    { Body("p1", "Director", Roster(<<Veteran>>)),
      Body("p1", "Director", Roster(<<Garbled>>)),
      Body("p2", "Director", Roster(<<Scout>>)) }

LiveAssign == \E b \in LiveBodies : Assign(b.playerId, b.directorName, b.agents)

LiveNext == Advance \/ Tick \/ LiveAssign \/ DoUnassign \/ AdminFinish

SpecLive ==
    Init /\ [][LiveNext]_vars /\ WF_vars(Advance) /\ WF_lastTickMs(TickRuns)

----------------------------------------------------------------------------
(* Steps of a behaviour, told apart by the response they leave *)

RequestStep(ops) == requests' = requests + 1 /\ res'.op \in ops
TickStep == requests' = requests /\ now' = now /\ res'.op = "tick"
AssignOps == {"assign", "assignById"}
UnassignOps == {"unassign", "unassignById"}

bundlesOf(threat) == IF threat = NULL THEN <<>> ELSE threat.assignedAgents
bundlesFor(threat, p) == SelectSeq(bundlesOf(threat), LAMBDA b : b.playerId = p)
bundlesBut(threat, p) == SelectSeq(bundlesOf(threat), LAMBDA b : b.playerId # p)

InRange(progress) == IsNum(progress) /\ progress.n >= 0 /\ progress.n <= 100 * ProgressUnit

----------------------------------------------------------------------------
(* C1: at most one threat instance is active: the active slot holds nothing or
   an instance with status active, and every archived instance has status
   cleared or expired. *)
C1_SingleActive ==
    /\ activeThreat = NULL \/ activeThreat.status = "active"
    /\ \A k \in 1..Len(finishedThreats) :
            finishedThreats[k].status \in {"cleared", "expired"}

C1_Witness ==
    /\ activeThreat # NULL
    /\ \E j, k \in 1..Len(finishedThreats) :
            /\ finishedThreats[j].status = "cleared"
            /\ finishedThreats[k].status = "expired"

(* C2: a step that terminates the active instance (an expiring or clearing tick,
   admin force-finish) at time T leaves cooldownUntil = T + 30 minutes and the
   archived record's end time T; and a step that creates an instance before
   cooldownUntil is an admin force-cycle, never a tick. *)
C2_Cooldown ==
    [][ /\ (activeThreat # NULL /\ activeThreat' = NULL) =>
              /\ cooldownUntilMs' = now' + 30 * 60 * 1000
              /\ Head(finishedThreats').endedAt = now'
        /\ (activeThreat = NULL /\ activeThreat' # NULL /\ now' < cooldownUntilMs) =>
              res'.op = "cycle"
      ]_vars

C2_Witness ==
    /\ res.op = "tick" /\ res.branch = "cooldown"
    /\ activeThreat = NULL
    /\ finishedThreats # <<>>
    /\ now < cooldownUntilMs
    /\ cooldownUntilMs = Head(finishedThreats).endedAt + 30 * 60 * 1000

(* C3, as claimed: while an instance stays active its progress never decreases
   over a tick, an assign or an unassign, it is always a number within 0..100,
   and every archived cleared instance has progress exactly 100. *)
C3_ProgressClaim ==
    [][ /\ activeThreat' # NULL => InRange(activeThreat'.progress)
        /\ \A k \in 1..Len(finishedThreats') :
              finishedThreats'[k].status = "cleared" =>
                  finishedThreats'[k].progress = Num(100 * ProgressUnit)
        /\ ( /\ activeThreat # NULL /\ activeThreat' # NULL
             /\ TickStep \/ RequestStep(AssignOps \cup UnassignOps) ) =>
              JsGeq(activeThreat'.progress, activeThreat.progress)
      ]_vars

(* C4: a tick at a time now >= expiresAt on an active instance archives it with
   status expired, with the progress and the bundles it had before the tick (no
   drain, no progress delta), and never as cleared. *)
C4_ExpiryFirst ==
    [][ ( /\ TickStep
          /\ activeThreat # NULL
          /\ activeThreat.status = "active"
          /\ now' >= activeThreat.expiresAt ) =>
            /\ activeThreat' = NULL
            /\ Len(finishedThreats') = Len(finishedThreats) + 1
            /\ Head(finishedThreats').status = "expired"
            /\ Head(finishedThreats').instanceId = activeThreat.instanceId
            /\ Head(finishedThreats').progress = activeThreat.progress
            /\ Head(finishedThreats').assignedAgents = activeThreat.assignedAgents
      ]_vars

\* an expired instance whose roster would have cleared it over the same interval
C4_Witness ==
    /\ res.op = "tick" /\ res.branch = "expired"
    /\ finishedThreats # <<>>
    /\ Head(finishedThreats).status = "expired"
    /\ Head(finishedThreats).assignedAgents # <<>>
    /\ isCleared(steadyTick(Head(finishedThreats), res.elapsedSec, now))

(* C5: after any operation completes there is no active instance whose progress
   is >= 100. *)
C5_ClearedAtHundred ==
    activeThreat # NULL => ~JsGeq(activeThreat.progress, Num(100 * ProgressUnit))

C5_Witness ==
    /\ res.op = "tick" /\ res.branch = "cleared"
    /\ activeThreat = NULL
    /\ Head(finishedThreats).status = "cleared"
    /\ Head(finishedThreats).progress = Num(100 * ProgressUnit)

(* C6, as claimed: right after a steady tick every agent left in the instance
   has health > 0 and sanity > 0, and the instance holds no bundle without
   agents. The bundles are those of the active instance, or of the record just
   archived when the tick cleared it. *)
C6_SurvivorsClaim ==
    LET bundles == IF res.branch = "steady" THEN bundlesOf(activeThreat)
                   ELSE Head(finishedThreats).assignedAgents
    IN  (res.op = "tick" /\ res.branch \in {"steady", "cleared"}) =>
            \A k \in 1..Len(bundles) :
                /\ Len(bundles[k].agents) > 0
                /\ \A j \in 1..Len(bundles[k].agents) :
                      /\ JsGt(bundles[k].agents[j].health, Num(0))
                      /\ JsGt(bundles[k].agents[j].sanity, Num(0))

(* C7, as claimed: no power computation includes an agent whose health or
   sanity is <= 0: neither the agents the list query's decorator sums over,
   nor the agents a steady tick sums over. *)
C7_NoDownedPoweredClaim ==
    [][ /\ RequestStep({"list"}) =>
              \A k \in 1..Len(listPowered) : ~isDowned(listPowered[k])
        /\ (TickStep /\ res'.branch = "steady") =>
              \A k \in 1..Len(allAgents(bundlesOf(activeThreat'))) :
                  ~isDowned(allAgents(bundlesOf(activeThreat'))[k])
      ]_vars

(* C8: the active instance holds at most one bundle per playerId, and a
   successful assign through either entry point leaves exactly one bundle for
   that player, holding the first three agents of that submission, in order. *)
C8_OneBundlePerPlayer ==
    [][ /\ \A p \in Players : Len(bundlesFor(activeThreat', p)) <= 1
        /\ \A b \in AssignBodies \cup AssignByIdBodies :
              ( /\ RequestStep(AssignOps)
                /\ res'.code = 200
                /\ res'.playerId = b.playerId
                /\ \/ Assign(b.playerId, b.directorName, b.agents)
                   \/ \E id \in InstanceIds :
                        AssignById(id, b.playerId, b.directorName, b.agents) ) =>
                  /\ Len(bundlesFor(activeThreat', b.playerId)) = 1
                  /\ LET stored == bundlesFor(activeThreat', b.playerId)[1].agents
                         sent == Slice(b.agents.items, 3)
                     IN  [k \in 1..Len(stored) |-> stored[k].agentId]
                            = [k \in 1..Len(sent) |-> sent[k].agentId]
      ]_vars

\* a player's bundle replaced by a later submission
C8_Witness ==
    /\ res.op \in AssignOps /\ res.code = 200 /\ res.branch = "replace"
    /\ Len(bundlesFor(activeThreat, res.playerId)) = 1

(* C9: a successful assign or unassign by player P leaves the bundles of every
   other player as they were, in the same order, and leaves the instance's
   identity, progress, status and expiry, the tick clock, the cooldown and the
   archive unchanged. *)
C9_Frame ==
    [][ (RequestStep(AssignOps \cup UnassignOps) /\ res'.code = 200) =>
            /\ bundlesBut(activeThreat', res'.playerId)
                  = bundlesBut(activeThreat, res'.playerId)
            /\ (activeThreat = NULL) = (activeThreat' = NULL)
            /\ activeThreat # NULL =>
                  /\ activeThreat'.instanceId = activeThreat.instanceId
                  /\ activeThreat'.progress = activeThreat.progress
                  /\ activeThreat'.status = activeThreat.status
                  /\ activeThreat'.expiresAt = activeThreat.expiresAt
                  /\ activeThreat'.createdAt = activeThreat.createdAt
            /\ UNCHANGED <<lastTickMs, cooldownUntilMs, finishedThreats, now>>
      ]_vars

\* a bundle removed while another player's bundle stays
C9_Witness ==
    /\ res.op \in UnassignOps /\ res.code = 200
    /\ activeThreat # NULL
    /\ bundlesFor(activeThreat, res.playerId) = <<>>
    /\ bundlesBut(activeThreat, res.playerId) # <<>>

(* C10, as claimed: an unassign with a non-empty playerId succeeds through
   both entry points, and is a no-op when the player has no bundle or no
   active instance exists. *)
C10_UnassignClaim ==
    [][ \A p \in Players :
          ( /\ RequestStep(UnassignOps)
            /\ \/ Unassign(p)
               \/ \E id \in InstanceIds : UnassignById(id, p) ) =>
              /\ res'.code = 200
              /\ bundlesFor(activeThreat, p) = <<>> =>
                    UNCHANGED <<activeThreat, finishedThreats, lastTickMs,
                                cooldownUntilMs, now>>
      ]_vars

(* C11: an assign fails with an error and leaves the active instance, the
   archive, the cooldown and the tick clock unchanged whenever no active
   instance exists, the instance id of the path is not the active instance's
   id, or playerId, directorName or the agents list is missing. *)
C11_AssignFails ==
    [][ RequestStep(AssignOps) =>
          \A b \in AssignBodies \cup AssignByIdBodies :
            LET missing == b.playerId = "" \/ b.directorName = "" \/ ~b.agents.isArray
                failed == /\ res'.code \in {400, 404}
                          /\ UNCHANGED <<activeThreat, finishedThreats,
                                         cooldownUntilMs, lastTickMs>>
            IN  /\ ( /\ Assign(b.playerId, b.directorName, b.agents)
                     /\ activeThreat = NULL \/ missing ) => failed
                /\ \A id \in InstanceIds :
                     ( /\ AssignById(id, b.playerId, b.directorName, b.agents)
                       /\ \/ activeThreat = NULL
                          \/ activeThreat.instanceId # id
                          \/ missing ) => failed
      ]_vars

\* an assign without directorName refused beside an active instance with a bundle
C11_Witness ==
    /\ res.op \in AssignOps /\ res.code = 400 /\ res.branch = "missing"
    /\ activeThreat # NULL
    /\ activeThreat.assignedAgents # <<>>

(* C12: an assign of more than three agents succeeds and stores the first three
   of them, in the order submitted; and no bundle, of the active instance or of
   an archived one, ever holds more than three agents. *)
C12_FirstThree ==
    [][ /\ \A k \in 1..Len(bundlesOf(activeThreat')) :
              Len(bundlesOf(activeThreat')[k].agents) <= 3
        /\ \A j \in 1..Len(finishedThreats') :
              \A k \in 1..Len(finishedThreats'[j].assignedAgents) :
                  Len(finishedThreats'[j].assignedAgents[k].agents) <= 3
        /\ RequestStep(AssignOps) =>
              \A b \in AssignBodies \cup AssignByIdBodies :
                ( /\ Len(b.agents.items) > 3
                  /\ b.playerId # "" /\ b.directorName # ""
                  /\ \A k \in 1..3 : b.agents.items[k] # NullEntry
                  /\ \/ /\ activeThreat # NULL
                        /\ Assign(b.playerId, b.directorName, b.agents)
                     \/ \E id \in InstanceIds :
                          /\ activeThreat # NULL /\ activeThreat.instanceId = id
                          /\ AssignById(id, b.playerId, b.directorName, b.agents) ) =>
                    /\ res'.code = 200
                    /\ bundlesFor(activeThreat', b.playerId) # <<>>
                    /\ bundlesFor(activeThreat', b.playerId)[1].agents
                          = [k \in 1..3 |-> snapshot(b.agents.items[k])]
      ]_vars

\* the first three of the four agents of Squad stored, the fourth left out
C12_Witness ==
    /\ res.op \in AssignOps /\ res.code = 200
    /\ bundlesFor(activeThreat, res.playerId) # <<>>
    /\ bundlesFor(activeThreat, res.playerId)[1].agents
          = [k \in 1..3 |-> snapshot(Squad[k])]
    /\ Len(Squad) = 4

(* C13: the eligibility map of a record just archived holds exactly the
   playerIds with a bundle on the instance at the terminating instant: for a
   clearing tick the players with an agent that survives that tick's drain, for
   an expiring tick, a force-finish and a force-cycle the players with a bundle
   before the step. *)
C13_Eligibility ==
    [][ finishedThreats' # finishedThreats =>
          LET ended == Head(finishedThreats')
              before == bundlesOf(activeThreat)
              survives(b) ==
                  \E j \in 1..Len(b.agents) :
                      ~isDowned(drainAgent(b.agents[j], activeThreat, res'.elapsedSec))
              atEnd ==
                  IF TickStep /\ res'.branch = "cleared"
                  THEN {before[k].playerId : k \in {j \in 1..Len(before) : survives(before[j])}}
                  ELSE {before[k].playerId : k \in 1..Len(before)}
          IN  /\ ended.eligibleForRewardByPlayerId = atEnd
              /\ ended.eligibleForRewardByPlayerId =
                    {ended.assignedAgents[k].playerId : k \in 1..Len(ended.assignedAgents)}
      ]_vars

\* a clearing tick with two players' agents surviving
C13_Witness ==
    /\ res.op = "tick" /\ res.branch = "cleared"
    /\ Head(finishedThreats).status = "cleared"
    /\ Head(finishedThreats).eligibleForRewardByPlayerId = {"p1", "p2"}

(* C14: an archived record never changes: over every step each record of the
   archive is found unchanged, one place further down when a new record was
   put in front, or has been evicted from the end. *)
C14_TerminalPermanent ==
    [][ \/ finishedThreats' = finishedThreats
        \/ /\ finishedThreats' # <<>>
           /\ \E n \in 0..Len(finishedThreats) :
                 Tail(finishedThreats') = SubSeq(finishedThreats, 1, n)
           /\ Head(finishedThreats').status \in {"cleared", "expired"}
      ]_vars

\* an older record still in the archive beneath one that ended later, with a
\* new instance active
C14_Witness ==
    /\ Len(finishedThreats) >= 2
    /\ finishedThreats[2].endedAt < Head(finishedThreats).endedAt
    /\ finishedThreats[2].assignedAgents # <<>>
    /\ activeThreat # NULL

(* C15: the archive never holds more than 50 records and is ordered by end time,
   latest first; a termination that finds 50 records puts the new record in
   front of the 49 latest ones, and the record it evicts is one that ended no
   later than any other. *)
C15_ArchiveBounded ==
    [][ /\ Len(finishedThreats') <= 50
        /\ \A k \in 1..(Len(finishedThreats') - 1) :
              finishedThreats'[k].endedAt >= finishedThreats'[k + 1].endedAt
        /\ (finishedThreats' # finishedThreats /\ Len(finishedThreats) = 50) =>
              /\ Len(finishedThreats') = 50
              /\ Head(finishedThreats').endedAt = now'
              /\ Tail(finishedThreats') = SubSeq(finishedThreats, 1, 49)
              /\ \A k \in 1..50 :
                    finishedThreats[50].endedAt <= finishedThreats[k].endedAt
      ]_vars

\* two terminations on a full archive: its two oldest records are gone
C15_Witness ==
    /\ Len(finishedThreats) = 50
    /\ finishedThreats[3] = cycledOut(1)
    /\ finishedThreats[50] = cycledOut(48)
    /\ finishedThreats[1].endedAt >= finishedThreats[2].endedAt

(* C16: an admin force-finish on an active instance, whatever its progress,
   archives it as cleared with progress 100, with the bundles it holds and the
   eligibility map of their players, starts the 30-minute cooldown and leaves
   no active instance; without an active instance it answers an error and
   changes no state. *)
C16_ForceFinish ==
    [][ RequestStep({"finish"}) =>
          IF activeThreat # NULL
          THEN /\ res'.code = 200
               /\ activeThreat' = NULL
               /\ Len(finishedThreats') >= 1
               /\ Head(finishedThreats').instanceId = activeThreat.instanceId
               /\ Head(finishedThreats').status = "cleared"
               /\ Head(finishedThreats').progress = Num(100 * ProgressUnit)
               /\ Head(finishedThreats').assignedAgents = activeThreat.assignedAgents
               /\ Head(finishedThreats').eligibleForRewardByPlayerId =
                     {p \in Players : bundlesFor(activeThreat, p) # <<>>}
               /\ Head(finishedThreats').endedAt = now
               /\ cooldownUntilMs' = now + 30 * 60 * 1000
          ELSE /\ res'.code = 400
               /\ UNCHANGED <<activeThreat, finishedThreats, cooldownUntilMs,
                              lastTickMs, now>>
      ]_vars

\* a force-finish of an instance that a steady tick had left below 100
C16_Witness ==
    /\ res.op = "finish" /\ res.code = 200
    /\ activeThreat = NULL
    /\ Head(finishedThreats).status = "cleared"
    /\ Head(finishedThreats).progress = Num(100 * ProgressUnit)
    /\ Head(finishedThreats).eligibleForRewardByPlayerId # {}
    /\ Head(finishedThreats).lastTick > Head(finishedThreats).createdAt
    /\ Head(finishedThreats).endedAt > Head(finishedThreats).lastTick

(* C17: an admin force-cycle, whatever the cooldown, archives the active
   instance (if any) as expired with its progress and bundles, sets the
   cooldown time to zero and leaves a new active instance with progress 0 and
   no bundles; and a termination that finds the cooldown time at zero sets it
   to 30 minutes after the termination again. *)
C17_ForceCycle ==
    [][ /\ RequestStep({"cycle"}) =>
              /\ res'.code = 200
              /\ cooldownUntilMs' = 0
              /\ activeThreat' # NULL
              /\ activeThreat'.status = "active"
              /\ activeThreat'.progress = Num(0)
              /\ activeThreat'.assignedAgents = <<>>
              /\ activeThreat'.createdAt = now
              /\ IF activeThreat # NULL
                 THEN /\ Head(finishedThreats').instanceId = activeThreat.instanceId
                      /\ Head(finishedThreats').status = "expired"
                      /\ Head(finishedThreats').progress = activeThreat.progress
                      /\ Head(finishedThreats').assignedAgents = activeThreat.assignedAgents
                      /\ Head(finishedThreats').endedAt = now
                      /\ \E n \in 0..Len(finishedThreats) :
                            Tail(finishedThreats') = SubSeq(finishedThreats, 1, n)
                 ELSE finishedThreats' = finishedThreats
        /\ ( /\ cooldownUntilMs = 0
             /\ activeThreat # NULL
             /\ activeThreat' = NULL ) =>
              cooldownUntilMs' = now' + 30 * 60 * 1000
      ]_vars

\* a force-cycle inside the cooldown a cleared instance had started
C17_Witness ==
    /\ res.op = "cycle"
    /\ cooldownUntilMs = 0
    /\ activeThreat # NULL /\ activeThreat.createdAt = now
    /\ finishedThreats # <<>>
    /\ Head(finishedThreats).status = "cleared"
    /\ now < Head(finishedThreats).endedAt + 30 * 60 * 1000

(* C18, as claimed: the speed multiplier (in tenths) is >= 1.0 for every
   input; for an integer difficulty d in 1..10 it is 1 + (10 - d) * 0.10 and
   non-increasing in d; a number below 1 gives the speed of 1 and a number
   above 10 the speed of 10; an absent or non-numeric difficulty gives 1.0. *)
C18_SpeedClaim ==
    res.op = "speed" =>
        LET d == activeThreat.difficulty
            speed == res.value
        IN  /\ speed >= 10
            /\ (IsNum(d) /\ d.n \in 1..10) => speed = 10 + (10 - d.n)
            /\ (IsNum(d) /\ d.n \in 1..9) =>
                    speed >= getDifficultySpeed([activeThreat EXCEPT
                                                    !.difficulty = Num(d.n + 1)])
            /\ (IsNum(d) /\ d.n < 1) => speed = 19
            /\ (IsNum(d) /\ d.n > 10) => speed = 10
            /\ ~IsNum(d) => speed = 10

(* C19, as claimed: every power the server computes is a finite number >= 0:
   the powers the list query's decorator sums for the active instance, and the
   powers a steady tick sums over the agents it keeps. *)
C19_FinitePowerClaim ==
    [][ /\ RequestStep({"list"}) =>
              \A k \in 1..Len(listPowered) :
                  JsGeq(computeAgentPower(listPowered[k], activeThreat), Num(0))
        /\ (TickStep /\ res'.branch = "steady") =>
              \A k \in 1..Len(allAgents(bundlesOf(activeThreat'))) :
                  JsGeq(computeAgentPower(allAgents(bundlesOf(activeThreat'))[k],
                                          activeThreat'), Num(0))
      ]_vars

(* C20, as claimed: after a successful assign every agent stored in the
   player's bundle has a finite number as health, sanity, courage,
   investigation and occultism. *)
C20_SanitizedClaim ==
    [][ (RequestStep(AssignOps) /\ res'.code = 200) =>
          \A b \in {bundlesFor(activeThreat', res'.playerId)[1]} :
            \A k \in 1..Len(b.agents) :
                /\ IsNum(b.agents[k].health)
                /\ IsNum(b.agents[k].sanity)
                /\ IsNum(b.agents[k].courage)
                /\ IsNum(b.agents[k].investigation)
                /\ IsNum(b.agents[k].occultism)
      ]_vars

(* C21, as claimed: a malformed assign of one player does not corrupt the
   progress the others earn: over a steady tick that leaves some player with an
   agent of finite power > 0, the progress of the instance is a number within
   0..100 afterwards and, unless it was 100 already, greater than before. *)
C21_IsolationClaim ==
    [][ ( /\ TickStep
          /\ res'.branch \in {"steady", "cleared"}
          /\ InRange(activeThreat.progress)
          /\ \E k \in 1..Len(allAgents(drainBundles(activeThreat, res'.elapsedSec))) :
                JsGt(computeAgentPower(
                        allAgents(drainBundles(activeThreat, res'.elapsedSec))[k],
                        activeThreat), Num(0)) ) =>
            LET after == IF res'.branch = "steady" THEN activeThreat'.progress
                         ELSE Head(finishedThreats').progress
            IN  /\ InRange(after)
                /\ JsGt(after, activeThreat.progress)
      ]_vars

(* C22, as claimed: the instance carries a contribution ledger, and a steady
   tick adds to it: after a steady tick that leaves player P an agent of power
   > 0, the instance has a ledger with a total for P that is greater than the
   total P had before (none counting as 0). *)
C22_LedgerClaim ==
    [][ (TickStep /\ res'.branch = "steady" /\ res'.elapsedSec > 0) =>
          \A p \in Players :
            LET kept == allAgents(bundlesFor(activeThreat', p))
                totalOf(t) ==
                    IF "contributions" \in DOMAIN t /\ p \in DOMAIN t.contributions.totals
                    THEN t.contributions.totals[p] ELSE 0
            IN  JsGt(totalPowerOf(kept, activeThreat'), Num(0)) =>
                    totalOf(activeThreat') > totalOf(activeThreat)
      ]_vars

(* C23: what the list query returns is the active instance (if any) followed by
   the archived instances in the order of the archive, and that order is
   newest first by creation time: no entry was created earlier than an entry
   after it, the active instance no earlier than any archived one. *)
C23_ListOrder ==
    LET list == listing(now)
        head == IF activeThreat = NULL THEN <<>> ELSE <<decorate(activeThreat, now)>>
    IN  /\ list = head \o [k \in 1..Len(finishedThreats) |->
                              decorate(finishedThreats[k], now)]
        /\ \A k \in 1..(Len(list) - 1) : list[k].createdAt >= list[k + 1].createdAt
        /\ activeThreat # NULL =>
              \A k \in 1..Len(finishedThreats) :
                  activeThreat.createdAt >= finishedThreats[k].createdAt

\* a list query answered with an active instance and two archived ones of
\* different ages
C23_Witness ==
    /\ res.op = "list"
    /\ activeThreat # NULL
    /\ Len(finishedThreats) >= 2
    /\ finishedThreats[1].createdAt > finishedThreats[2].createdAt
    /\ activeThreat.createdAt >= finishedThreats[1].createdAt

(* C24: the list query changes no instance, bundle, archive, cooldown or
   tick-clock state; in each entry it returns, and in the one it would return a
   fraction of a second later, secondsToExpiry is the floor of the seconds left
   to expiresAt, or 0 once that is past; and
   etaSecondsToCompletion and etaCompletionAt are non-null exactly when the
   entry is active, its total power is > 0 and its progress is < 100, so never
   for an archived instance. *)
C24_ListReadOnly ==
    [][ RequestStep({"list"}) =>
          /\ UNCHANGED <<activeThreat, finishedThreats, cooldownUntilMs, lastTickMs, now>>
          /\ \A k \in 1..Len(listing(now)) :
                LET e == listing(now)[k]
                    left == e.expiresAt - now
                    powered ==
                        /\ e.status = "active"
                        /\ JsGt(totalPowerOf(allAgents(e.assignedAgents), e), Num(0))
                        /\ JsLt(e.progress, Num(100 * ProgressUnit))
                IN  /\ e.secondsToExpiry >= 0
                    /\ left <= 0 => e.secondsToExpiry = 0
                    /\ left > 0 =>
                          /\ e.secondsToExpiry * 1000 <= left
                          /\ left < (e.secondsToExpiry + 1) * 1000
                    /\ (e.etaSecondsToCompletion # NULL) = powered
                    /\ (e.etaCompletionAt # Undef) = powered
                    /\ "endedAt" \in DOMAIN e => e.etaSecondsToCompletion = NULL
                    /\ \A late \in {1, 999} :
                          LET s == decoration(e, now + late).secondsToExpiry
                          IN  /\ s >= 0
                              /\ left - late > 0 =>
                                    /\ s * 1000 <= left - late
                                    /\ left - late < (s + 1) * 1000
      ]_vars

\* a list query over an active instance that has an ETA and an archived one
\* past its expiry
C24_Witness ==
    /\ res.op = "list"
    /\ activeThreat # NULL
    /\ decoration(activeThreat, now).etaSecondsToCompletion # NULL
    /\ finishedThreats # <<>>
    /\ Head(finishedThreats).expiresAt <= now

(* C25: a tick that finds no active instance creates one exactly when time has
   passed since the last tick and now >= cooldownUntil; the new instance is
   active, with progress 0, no bundles, created now and expiring its template's
   lifetime later; the tick clock is set to now, and the archive and the
   cooldown are left alone. *)
C25_SpawnTick ==
    [][ (TickStep /\ activeThreat = NULL) =>
          IF now > lastTickMs /\ now >= cooldownUntilMs
          THEN /\ activeThreat' # NULL
               /\ activeThreat'.status = "active"
               /\ activeThreat'.progress = Num(0)
               /\ activeThreat'.assignedAgents = <<>>
               /\ activeThreat'.createdAt = now
               /\ \E k \in 1..Len(threatTemplates) :
                     /\ threatTemplates[k].id = activeThreat'.templateId
                     /\ activeThreat'.expiresAt =
                           now + threatTemplates[k].lifetimeMinutes * 60 * 1000
               /\ lastTickMs' = now
               /\ UNCHANGED <<finishedThreats, cooldownUntilMs>>
          ELSE /\ activeThreat' = NULL
               /\ UNCHANGED <<finishedThreats, cooldownUntilMs>>
      ]_vars

\* an instance spawned by the first tick at or after the end of a cooldown
C25_Witness ==
    /\ res.op = "tick" /\ res.branch = "spawn"
    /\ activeThreat # NULL /\ activeThreat.createdAt = now
    /\ finishedThreats # <<>>
    /\ cooldownUntilMs > 0 /\ now >= cooldownUntilMs

(* C26: a tick attempt with elapsed <= 0 changes nothing, the time of the last
   tick included; a tick attempt with elapsed > 0 sets the time of the last
   tick to its now in every branch (spawn, cooldown, expiry, steady, clear),
   and the interval it applies is the time since the last tick, so no interval
   is applied twice. *)
C26_TickClock ==
    [][ TickStep =>
          IF now - lastTickMs <= 0
          THEN UNCHANGED <<activeThreat, finishedThreats, cooldownUntilMs,
                           lastTickMs, now>>
          ELSE /\ lastTickMs' = now
               /\ res'.elapsedSec * 1000 = now - lastTickMs
               /\ res'.branch \in {"spawn", "cooldown", "expired", "steady", "cleared"}
      ]_vars

\* a tick inside the cooldown, one grid step after the tick before it
C26_Witness ==
    /\ res.op = "tick" /\ res.branch = "cooldown"
    /\ res.elapsedSec * 1000 = Grid
    /\ lastTickMs = now
    /\ now < cooldownUntilMs

(* What a steady tick is expected to leave as progress: min(100, start +
   elapsed * totalPower * BASE_RATE * speed), totalPower being the summed power
   of the agents that survive the drain; not a number when that sum is not. *)
C27_Expected(start) ==
    LET all == allAgents(activeThreat.assignedAgents)
        drained == [k \in 1..Len(all) |->
                        drainAgent(all[k], activeThreat, res'.elapsedSec)]
        kept == SelectSeq(drained, LAMBDA a : ~isDowned(a))
        total == SeqSum([k \in 1..Len(kept) |-> computeAgentPower(kept[k], activeThreat)])
        sum == start + res'.elapsedSec * total.n * WT_BASE_RATE_MILLI
                          * getDifficultySpeed(activeThreat)
    IN  IF ~IsNum(total) THEN NaN
        ELSE IF sum > 100 * ProgressUnit THEN Num(100 * ProgressUnit) ELSE Num(sum)

\* the progress a steady or clearing tick has left
C27_After ==
    IF res'.branch = "steady" THEN activeThreat'.progress
    ELSE Head(finishedThreats').progress

\* the case of the example: difficulty 10, ten seconds, one agent whose only
\* stat is the primary one, at 10
C27_Example ==
    /\ activeThreat.difficulty = Num(10)
    /\ res'.elapsedSec = 10
    /\ IsNum(activeThreat.progress)
    /\ Len(allAgents(activeThreat.assignedAgents)) = 1
    /\ LET a == allAgents(activeThreat.assignedAgents)[1]
       IN  /\ activeThreat.primaryStat = "Occultism"
           /\ a.occultism = Num(10) /\ a.courage = Num(0) /\ a.investigation = Num(0)
           /\ a.skills = {} /\ a.worldThreatModifiers = NoMods
           /\ ~isDowned(drainAgent(a, activeThreat, 10))

(* C27, as claimed: a steady tick leaves progress min(100, progress + elapsed *
   totalPower * BASE_RATE * speed) over the surviving agents, leaves it
   unchanged without survivors, and in the example raises it by
   10 * 15 * BASE_RATE, that is 0.15. *)
C27_ProgressClaim ==
    [][ (TickStep /\ res'.branch \in {"steady", "cleared"}) =>
          /\ IsNum(activeThreat.progress) =>
                C27_After = C27_Expected(activeThreat.progress.n)
          /\ C27_Example =>
                C27_After.n - activeThreat.progress.n = (15 * ProgressUnit) \div 100
      ]_vars

(* C27, amended: as claimed, the previous progress counting as 0 when it is not
   a number and the result being not a number when the total power is not; and
   in the example the power is 10 * 1.5 + 10 * 0.6 = 21, so progress rises by
   10 * 21 * BASE_RATE, that is 0.21. *)
C27_Progress ==
    [][ (TickStep /\ res'.branch \in {"steady", "cleared"}) =>
          /\ C27_After = C27_Expected(IF IsNum(activeThreat.progress)
                                      THEN activeThreat.progress.n ELSE 0)
          /\ C27_Example =>
                C27_After.n - activeThreat.progress.n = (21 * ProgressUnit) \div 100
      ]_vars

\* the tick of the example: one agent of power 21 for ten seconds at difficulty 10
C27_Witness ==
    /\ res.op = "tick" /\ res.branch = "steady" /\ res.elapsedSec = 10
    /\ activeThreat # NULL
    /\ activeThreat.difficulty = Num(10)
    /\ activeThreat.progress = Num((21 * ProgressUnit) \div 100)
    /\ Len(allAgents(activeThreat.assignedAgents)) = 1

\* the health and sanity a tick of `threat` takes from agent a, as a pair
C28_Loss(a, threat, elapsedSec) ==
    LET probe == drainAgent([a EXCEPT !.health = Num(0), !.sanity = Num(0)],
                            threat, elapsedSec)
    IN  <<JsSub(Num(0), probe.health), JsSub(Num(0), probe.sanity)>>

(* C28, as claimed: over a steady tick of an instance of difficulty d1, and for
   every harder catalog difficulty d2 > d1 with the same bundles, progress and
   elapsed time: the progress gained is >= the gain at d2, every agent's health
   and sanity loss is <= its loss at d2, and each loss times speed(d1) equals
   the loss at difficulty 10 (speeds in tenths). *)
C28_EasingClaim ==
    [][ (TickStep /\ res'.branch \in {"steady", "cleared"}) =>
          \A d2 \in {8, 9, 10} :
            activeThreat.difficulty.n < d2 =>
              LET e == res'.elapsedSec
                  harder == [activeThreat EXCEPT !.difficulty = Num(d2)]
                  hardest == [activeThreat EXCEPT !.difficulty = Num(10)]
                  all == allAgents(activeThreat.assignedAgents)
              IN  /\ JsGeq(JsSub(C27_After, activeThreat.progress),
                           JsSub(steadyTick(harder, e, now).progress,
                                 activeThreat.progress))
                  /\ \A k \in 1..Len(all) : \A i \in 1..2 :
                        /\ JsLeq(C28_Loss(all[k], activeThreat, e)[i],
                                 C28_Loss(all[k], harder, e)[i])
                        /\ JsMul(C28_Loss(all[k], activeThreat, e)[i],
                                 Num(getDifficultySpeed(activeThreat)))
                              = JsMul(C28_Loss(all[k], hardest, e)[i], Num(10))
      ]_vars

(* C29, as claimed: every playerId in the eligibility map of an archived record
   has, in that record's bundles as they stood when it ended, at least one agent
   with health > 0 and sanity > 0. *)
C29_LiveAgentClaim ==
    \A r \in 1..Len(finishedThreats) :
        \A p \in finishedThreats[r].eligibleForRewardByPlayerId :
            \E i \in 1..Len(finishedThreats[r].assignedAgents) :
                LET b == finishedThreats[r].assignedAgents[i]
                IN  /\ b.playerId = p
                    /\ \E j \in 1..Len(b.agents) :
                          /\ JsGt(b.agents[j].health, Num(0))
                          /\ JsGt(b.agents[j].sanity, Num(0))

(* C30, as claimed: over every tick of an active instance, each agent that is
   still in the instance after the tick (the same player's agent of the same
   agentId) has a health and a sanity not greater than before the tick. *)
C30_NoHealingClaim ==
    [][ (TickStep /\ activeThreat # NULL) =>
          LET before == activeThreat.assignedAgents
              kept == IF activeThreat' # NULL THEN activeThreat'.assignedAgents
                      ELSE Head(finishedThreats').assignedAgents
          IN  \A i \in 1..Len(kept) : \A j \in 1..Len(kept[i].agents) :
                \A b \in 1..Len(before) : \A k \in 1..Len(before[b].agents) :
                    (/\ before[b].playerId = kept[i].playerId
                     /\ before[b].agents[k].agentId = kept[i].agents[j].agentId)
                    => /\ ~JsGt(kept[i].agents[j].health, before[b].agents[k].health)
                       /\ ~JsGt(kept[i].agents[j].sanity, before[b].agents[k].sanity)
      ]_vars

(* C31, as claimed: when a tick runs right after an accepted assign of player p
   that arrived at the tick's own instant, later than the previous tick, p's
   new agents are drained for the zero seconds since the assign, and the
   progress is the one the tick gives without p's bundle: nothing is charged
   or credited for the time before the assign. *)
C31_SinceAssignClaim ==
    [][ (/\ TickStep
         /\ res.op \in AssignOps /\ res.code = 200
         /\ res'.branch \in {"steady", "cleared"}) =>
          LET p == res.playerId
              after == IF activeThreat' # NULL THEN activeThreat'
                       ELSE Head(finishedThreats')
              mine == [activeThreat EXCEPT
                          !.assignedAgents = bundlesFor(activeThreat, p)]
              others == [activeThreat EXCEPT
                          !.assignedAgents = bundlesBut(activeThreat, p)]
          IN  /\ bundlesFor(after, p) = drainBundles(mine, 0)
              /\ after.progress
                    = steadyTick(others, res'.elapsedSec, now).progress
      ]_vars

\* the instants at which an instance can be created
C32_Instants == {Epoch + k * Grid : k \in 0..MaxSteps}

\* the instance created at instant c is archived as cleared or expired
C32_Archived(c) ==
    \E r \in 1..Len(finishedThreats) :
        /\ finishedThreats[r].createdAt = c
        /\ finishedThreats[r].status \in {"cleared", "expired"}

(* C32: while time advances and ticks keep running, every active instance whose
   expiry instant lies within the clock's range is eventually archived as
   cleared or expired, whatever requests arrive in between. *)
C32_Terminates ==
    \A c \in C32_Instants :
        (/\ activeThreat # NULL
         /\ activeThreat.createdAt = c
         /\ activeThreat.expiresAt <= MaxNow) ~> C32_Archived(c)

\* an instance ran out with a bundle still assigned, after all the requests
C32_Witness ==
    /\ res.op = "tick" /\ res.branch = "expired"
    /\ requests = MaxRequests
    /\ Head(finishedThreats).status = "expired"
    /\ Head(finishedThreats).assignedAgents # <<>>
    /\ Head(finishedThreats).expiresAt <= now

(* C33: while time advances and ticks keep running, the state without an active
   instance whose cooldown ends within the clock's range is always followed by
   a state with an active instance; and a due tick that finds no active
   instance spawns one exactly when its instant is >= cooldownUntil, so the
   spawn happens at the first such tick. *)
C33_Respawns ==
    /\ (activeThreat = NULL /\ cooldownUntilMs <= MaxNow) ~> (activeThreat # NULL)
    /\ [][ (TickStep /\ activeThreat = NULL /\ now > lastTickMs) =>
              IF now >= cooldownUntilMs
              THEN /\ res'.branch = "spawn"
                   /\ activeThreat' # NULL
                   /\ activeThreat'.status = "active"
                   /\ activeThreat'.createdAt = now
              ELSE activeThreat' = NULL
        ]_vars

\* a tick spawned an instance once the cooldown of an archived one was over
C33_Witness ==
    /\ res.op = "tick" /\ res.branch = "spawn"
    /\ activeThreat # NULL
    /\ finishedThreats # <<>>
    /\ cooldownUntilMs > Head(finishedThreats).createdAt
    /\ activeThreat.createdAt >= cooldownUntilMs

====
